---- MODULE Spec2Model ----
(***************************************************************************)
(* Model of clients/python/informix_client.py: the InformixClient class.   *)
(*                                                                         *)
(* One client instance, its session token (connection_id), its gRPC        *)
(* channel, the with-scope it may be used in, and the public operations.   *)
(* The proxy is the environment: every RPC either raises a transport       *)
(* error or returns a response drawn from a small set.  ExecuteQuery is a  *)
(* server stream: the loop of query / query_stream consumes one chunk per  *)
(* step, the proxy choosing each chunk when it is read.                    *)
(* The two conversion helpers, _convert_parameters and _convert_value,     *)
(* are pure: they are operators, run by themselves in SpecCodec.           *)
(***************************************************************************)
EXTENDS Integers, Sequences, FiniteSets, TLC

(* ---------------------------------------------------------------- bounds *)

\* Rows one ExecuteQuery stream delivers, all its chunks together.
MaxRows == 2

\* Chunks read from one ExecuteQuery stream.
MaxChunks == 3

\* Length of the list given to _convert_parameters.
MaxParams == 2

(* ------------------------------------------------------- value universes *)

\* Python None for connection_id (Optional[str]); "" is the proto3 default
\* of ConnectionResponse.connection_id.
None == "<None>"

ConnIds == {"", "conn-1"}

\* Error texts a response may carry; "" is the proto3 default (no error).
ErrTexts == {"", "boom"}

Names == {"a", "b"}

\* Native (Python) values: a type tag and a payload.
PyNone == [type |-> "NoneType", val |-> 0]

\* informix_pb2.Value: the is_null flag and the populated member of oneof
\* `data` ("" when none is populated).
WireInt == [is_null |-> FALSE, which |-> "int_data", data |-> 1]

WireNull == [is_null |-> TRUE, which |-> "string_data", data |-> 7]

\* All sequences over S of length at most n.
SeqUpTo(S, n) == UNION { [1..k -> S] : k \in 0..n }

\* A wire column descriptor (informix_pb2.ColumnMetadata).
WireColumns ==
    { [name |-> n, type |-> "INTEGER", precision |-> 10, scale |-> 0,
       nullable |-> TRUE] : n \in Names }

\* The descriptor lists a chunk may carry: up to one descriptor per name,
\* in any order, a name possibly repeated.
WireColumnLists == SeqUpTo(WireColumns, Cardinality(Names))

\* The wire rows a chunk may carry: of no, one and two values, the two
\* values of a row differing so that their positions can be told apart.
WireRows == { << >>, << WireInt >>, << WireInt, WireNull >> }

\* The totals a chunk may report in total_rows.
Totals == {0, 1}

\* One message of the ExecuteQuery response stream, the stream having
\* `budget` rows left.  A chunk that reports an error is drawn with rows
\* (which must not be decoded) and nothing else: the loop body reads no
\* other field of it.
Chunks(budget) ==
    [ error : {""},
      columns : WireColumnLists,
      rows : SeqUpTo(WireRows, budget),
      total_rows : Totals ]
    \cup
    [ error : ErrTexts \ {""},
      columns : {<< >>},
      rows : SeqUpTo(WireRows, budget),
      total_rows : {0} ]

(* ------------------------------------------------------------ the state *)

VARIABLES
    connection_id,  \* self.connection_id
    closes,         \* number of self.channel.close() calls so far
    scope,          \* "none" | "entered" | "exited": the with-statement
    pc,             \* "idle" | "query" | "query_stream": the loop being run
    on_row,         \* query_stream's on_row argument: "handler" | "none"
    columns,        \* local `columns` of the running / last query call
    rows,           \* local `rows` of query
    total_rows,     \* local `total_rows`
    chunksRead,     \* responses pulled from the ExecuteQuery iterator
    handled,        \* the dicts on_row has been called with, in order
    src,            \* the wire rows behind the dicts appended / handled
    colsFrom,       \* which chunks carried column descriptors so far
    lastRowsAt,     \* number of the last chunk whose rows the loop went over
    errSeen,        \* the first error chunk read by this call, if any
    earlyRow,       \* rows met while no columns were cached, if any
    lastTotal,      \* total_rows of the last chunk read that was no error chunk
    handlerFail,    \* the on_row call that raised during this call, if any
    last,           \* the last public call: its outcome as the caller sees it
    codec           \* a run of the two conversion helpers on their own

vars == << connection_id, closes, scope, pc, on_row, columns, rows, total_rows,
           chunksRead, handled, src, colsFrom, lastRowsAt, errSeen, earlyRow,
           lastTotal, handlerFail, last, codec >>

aggVars == << on_row, columns, rows, total_rows, chunksRead, handled, src,
              colsFrom, lastRowsAt, errSeen, earlyRow, lastTotal,
              handlerFail >>

(* ------------------------------------------------------ Python helpers *)

\* `not self.connection_id`: None and "" are both falsy.
Falsy(cid) == cid = None \/ cid = ""

NotConnectedMsg == "Not connected to database. Call connect() first."

\* The local `columns`: None, or a list of dicts.
ColsNone == [isNone |-> TRUE, list |-> << >>]

ColsList(l) == [isNone |-> FALSE, list |-> l]

\* No chunk carried descriptors yet / only the first chunk did (and these
\* are its descriptors) / a later chunk did.
NoCols == [when |-> "none", first |-> << >>]

NoErr == [seen |-> FALSE, text |-> "", at |-> 0, emitted |-> 0, nrows |-> 0]

NoFail == [seen |-> FALSE, chunk |-> 0, row |-> 0, before |-> 0]

NoEarly == [seen |-> FALSE, emitted |-> 0]

NoRet == [none |-> TRUE]

EmptyObj == [n \in {} |-> PyNone]

TransactionOps == {"begin_transaction", "commit", "rollback"}

\* No response message was received.
NoResp == [none |-> TRUE]

\* What the caller observes of a call: how it ended, the RPCs it issued and
\* the connection_id they carried, and the client's state when it began;
\* beside it the response message the call's RPC was answered with and,
\* for a transaction call, the call made before it.
Outcome(op, outcome, exc, msg, text, rpcs, ret, before) ==
    [ op |-> op, outcome |-> outcome, exc |-> exc, msg |-> msg, text |-> text,
      rpcs |-> rpcs, ret |-> ret, before |-> before,
      sent |-> IF rpcs = 0 \/ op = "connect" THEN None
               ELSE before.connection_id,
      disconnects |-> 0, second |-> FALSE, resp |-> NoResp,
      prev |-> IF op \in TransactionOps THEN last.op ELSE "" ]

Now == [connection_id |-> connection_id, closes |-> closes]

Returned(op, rpcs, ret) == Outcome(op, "returned", "", "", "", rpcs, ret, Now)

Raised(op, exc, msg, text, rpcs) ==
    Outcome(op, "raised", exc, msg, text, rpcs, NoRet, Now)

\* The call whose RPC was answered with `response` ended as `o`.
Answered(response, o) == [o EXCEPT !.resp = response]

\* A check that tests `is None` instead of truthiness.
CheckConnectionIsNone(cid) == cid = None

\* _check_connection raises iff this holds.
CheckConnection(cid) == Falsy(cid)

\* The transport outcomes of invoking an RPC on self.channel: a closed
\* grpc channel refuses every invocation, an open one may fail or answer.
RpcOutcomes == IF closes > 0 THEN {"closed"} ELSE {"ok", "unavailable"}

TransportExc(rpc) == IF rpc = "closed" THEN "ValueError" ELSE "RpcError"

\* RPCs that reached the wire: a closed channel raises before sending.
Issued(rpc) == IF rpc = "closed" THEN 0 ELSE 1

\* A frame whose `columns` is left over from the call before.
ResetAggKeepsColumns ==
    /\ on_row' = "none"
    /\ UNCHANGED columns
    /\ rows' = << >>
    /\ total_rows' = 0
    /\ chunksRead' = 0
    /\ handled' = << >>
    /\ src' = << >>
    /\ colsFrom' = NoCols
    /\ lastRowsAt' = 0
    /\ errSeen' = NoErr
    /\ earlyRow' = NoEarly
    /\ lastTotal' = 0
    /\ handlerFail' = NoFail

\* Frame of a call that runs no query loop.
ResetAgg ==
    /\ on_row' = "none"
    /\ columns' = ColsNone
    /\ rows' = << >>
    /\ total_rows' = 0
    /\ chunksRead' = 0
    /\ handled' = << >>
    /\ src' = << >>
    /\ colsFrom' = NoCols
    /\ lastRowsAt' = 0
    /\ errSeen' = NoErr
    /\ earlyRow' = NoEarly
    /\ lastTotal' = 0
    /\ handlerFail' = NoFail

Callable == pc = "idle" /\ scope # "exited"

(* ---------------------------------------------------------------- Init *)

\* The client after __init__.
InitClient ==
    /\ connection_id = None
    /\ closes = 0
    /\ scope = "none"
    /\ pc = "idle"
    /\ on_row = "none"
    /\ columns = ColsNone
    /\ rows = << >>
    /\ total_rows = 0
    /\ chunksRead = 0
    /\ handled = << >>
    /\ src = << >>
    /\ colsFrom = NoCols
    /\ lastRowsAt = 0
    /\ errSeen = NoErr
    /\ earlyRow = NoEarly
    /\ lastTotal = 0
    /\ handlerFail = NoFail
    /\ last = Outcome("__init__", "returned", "", "", "", 0, NoRet,
                      [connection_id |-> None, closes |-> 0])

\* No conversion under way, no list to convert.
NoCodec ==
    [ pc |-> "start", params |-> << >>, encoded |-> << >>,
      punned |-> [none |-> TRUE], value |-> [none |-> TRUE],
      decoded |-> [none |-> TRUE] ]

Init == InitClient /\ codec = NoCodec

(* ------------------------------------------------- connect / disconnect *)

ConnectResponses ==
    [ success : BOOLEAN, error : ErrTexts, connection_id : ConnIds,
      server_version : {"14.10"} ]

\* connect() storing the token before it looks at response.success.
ConnectBodyStoresFirst(cid, response) ==
    IF ~response.success
    THEN [connection_id |-> response.connection_id, exc |-> "Exception",
          msg |-> "Connection failed: ", text |-> response.error,
          ret |-> NoRet]
    ELSE [connection_id |-> response.connection_id, exc |-> "", msg |-> "",
          text |-> "",
          ret |-> [connection_id |-> response.connection_id,
                   server_version |-> response.server_version]]

\* connect() from the response on, the token being cid: the success test,
\* the assignment of the token, the returned dict.
ConnectBody(cid, response) ==
    IF ~response.success
    THEN [connection_id |-> cid, exc |-> "Exception",
          msg |-> "Connection failed: ", text |-> response.error,
          ret |-> NoRet]
    ELSE [connection_id |-> response.connection_id, exc |-> "", msg |-> "",
          text |-> "",
          ret |-> [connection_id |-> response.connection_id,
                   server_version |-> response.server_version]]

Connect ==
    /\ Callable
    /\ \E rpc \in RpcOutcomes :
        IF rpc # "ok"
        THEN /\ last' = Raised("connect", TransportExc(rpc), "", "", Issued(rpc))
             /\ UNCHANGED connection_id
        ELSE \E response \in ConnectResponses :
             LET c == ConnectBody(connection_id, response) IN
             /\ connection_id' = c.connection_id
             /\ last' = Answered(response,
                    IF c.exc # ""
                    THEN Raised("connect", c.exc, c.msg, c.text, 1)
                    ELSE Returned("connect", 1, c.ret))
    /\ ResetAgg
    /\ UNCHANGED << closes, scope, pc >>
    /\ UNCHANGED codec

\* disconnect() without its early return.
DisconnectAlwaysRpc(cid, n, rpc) ==
    IF rpc # "ok"
    THEN [connection_id |-> cid, closes |-> n, rpcs |-> Issued(rpc),
          exc |-> TransportExc(rpc)]
    ELSE [connection_id |-> None, closes |-> n + 1, rpcs |-> 1, exc |-> ""]

\* The body of disconnect() on token cid with `n` closes so far, the
\* Disconnect RPC ending as `rpc`.
disconnect(cid, n, rpc) ==
    IF Falsy(cid)
    THEN [connection_id |-> cid, closes |-> n, rpcs |-> 0, exc |-> ""]
    ELSE IF rpc # "ok"
    THEN [connection_id |-> cid, closes |-> n, rpcs |-> Issued(rpc),
          exc |-> TransportExc(rpc)]
    ELSE [connection_id |-> None, closes |-> n + 1, rpcs |-> 1, exc |-> ""]

\* The caller's view of a disconnect() that ran as `d`.
DisconnectOutcome(op, d, calls) ==
    [ Outcome(op, IF d.exc = "" THEN "returned" ELSE "raised", d.exc, "", "",
              d.rpcs, NoRet, Now)
      EXCEPT !.disconnects = calls,
             !.second = /\ last.op \in {"disconnect", "__exit__"}
                        /\ last.outcome = "returned" ]

Disconnect ==
    /\ Callable
    /\ \E rpc \in RpcOutcomes :
        LET d == disconnect(connection_id, closes, rpc) IN
        /\ connection_id' = d.connection_id
        /\ closes' = d.closes
        /\ last' = DisconnectOutcome("disconnect", d, 1)
    /\ ResetAgg
    /\ UNCHANGED << scope, pc >>
    /\ UNCHANGED codec

(* ------------------------------------------------------ with-statement *)

Enter ==
    /\ pc = "idle"
    /\ scope = "none"
    /\ scope' = "entered"
    /\ last' = Returned("__enter__", 0, NoRet)
    /\ ResetAgg
    /\ UNCHANGED << connection_id, closes, pc >>
    /\ UNCHANGED codec

\* __exit__ without its call of disconnect().
ExitSkipsDisconnect(cid, n, rpc) ==
    [ d |-> [connection_id |-> cid, closes |-> n, rpcs |-> 0, exc |-> ""],
      calls |-> 0 ]

\* __exit__(exc_type, exc_val, exc_tb): one call of self.disconnect().
ExitBody(cid, n, rpc) == [d |-> disconnect(cid, n, rpc), calls |-> 1]

\* The arguments are ignored, and the (falsy) return value lets a pending
\* exception of the with-body go on.
Exit ==
    /\ pc = "idle"
    /\ scope = "entered"
    /\ \E rpc \in RpcOutcomes, exc_type \in {"None", "Exception"} :
        LET x == ExitBody(connection_id, closes, rpc) IN
        /\ connection_id' = x.d.connection_id
        /\ closes' = x.d.closes
        /\ last' = DisconnectOutcome("__exit__", x.d, x.calls)
    /\ scope' = "exited"
    /\ ResetAgg
    /\ UNCHANGED pc
    /\ UNCHANGED codec


(* ------------------------------------------- single-RPC session operations *)

NotConnected(op) == Raised(op, "Exception", NotConnectedMsg, "", 0)

TransportFailure(op, rpc) == Raised(op, TransportExc(rpc), "", "", Issued(rpc))

PingResponses == [alive : BOOLEAN, latency_ms : {3}]

Ping ==
    /\ Callable
    /\ IF CheckConnection(connection_id)
       THEN last' = NotConnected("ping")
       ELSE \E rpc \in RpcOutcomes :
            IF rpc # "ok"
            THEN last' = TransportFailure("ping", rpc)
            ELSE \E response \in PingResponses :
                 last' = Answered(response, Returned("ping", 1,
                    [alive |-> response.alive,
                     latency_ms |-> response.latency_ms]))
    /\ ResetAgg
    /\ UNCHANGED << connection_id, closes, scope, pc >>
    /\ UNCHANGED codec

UpdateResponses == [error : ErrTexts, rows_affected : 0..1]

Execute ==
    /\ Callable
    /\ IF CheckConnection(connection_id)
       THEN last' = NotConnected("execute")
       ELSE \E rpc \in RpcOutcomes :
            IF rpc # "ok"
            THEN last' = TransportFailure("execute", rpc)
            ELSE \E response \in UpdateResponses :
                 last' = Answered(response,
                    IF response.error # ""
                    THEN Raised("execute", "Exception", "Execute failed: ",
                                response.error, 1)
                    ELSE Returned("execute", 1,
                            [rows_affected_n |-> response.rows_affected]))
    /\ ResetAgg
    /\ UNCHANGED << connection_id, closes, scope, pc >>
    /\ UNCHANGED codec

BatchResponses == [error : ErrTexts, rows_affected : SeqUpTo(1..2, 2)]

\* batch() returning the counts the response carries whatever its error.
BatchResultKeepsCounts(response) ==
    Returned("batch", 1, [rows_affected |-> response.rows_affected])

\* batch() from the response on: the error test, list(rows_affected).
BatchResult(response) ==
    IF response.error # ""
    THEN Raised("batch", "Exception", "Batch failed: ", response.error, 1)
    ELSE Returned("batch", 1, [rows_affected |-> response.rows_affected])

Batch ==
    /\ Callable
    /\ IF CheckConnection(connection_id)
       THEN last' = NotConnected("batch")
       ELSE \E rpc \in RpcOutcomes :
            IF rpc # "ok"
            THEN last' = TransportFailure("batch", rpc)
            ELSE \E response \in BatchResponses :
                 last' = Answered(response, BatchResult(response))
    /\ ResetAgg
    /\ UNCHANGED << connection_id, closes, scope, pc >>
    /\ UNCHANGED codec

TransactionResponses == [success : BOOLEAN, error : ErrTexts]

\* A transaction call asking the proxy once more after a refusal.
TransactionResultRetries(op, msg, response) ==
    IF ~response.success
    THEN Raised(op, "Exception", msg, response.error, 2)
    ELSE Returned(op, 1, NoRet)

\* begin_transaction / commit / rollback from the response on: the success
\* test; nothing is stored, nothing is returned.
TransactionResult(op, msg, response) ==
    IF ~response.success
    THEN Raised(op, "Exception", msg, response.error, 1)
    ELSE Returned(op, 1, NoRet)

BeginTransaction ==
    /\ Callable
    /\ IF CheckConnection(connection_id)
       THEN last' = NotConnected("begin_transaction")
       ELSE \E rpc \in RpcOutcomes :
            IF rpc # "ok"
            THEN last' = TransportFailure("begin_transaction", rpc)
            ELSE \E response \in TransactionResponses :
                 last' = Answered(response,
                    TransactionResult("begin_transaction", "Begin transaction failed: ", response))
    /\ ResetAgg
    /\ UNCHANGED << connection_id, closes, scope, pc >>
    /\ UNCHANGED codec

Commit ==
    /\ Callable
    /\ IF CheckConnection(connection_id)
       THEN last' = NotConnected("commit")
       ELSE \E rpc \in RpcOutcomes :
            IF rpc # "ok"
            THEN last' = TransportFailure("commit", rpc)
            ELSE \E response \in TransactionResponses :
                 last' = Answered(response,
                    TransactionResult("commit", "Commit failed: ", response))
    /\ ResetAgg
    /\ UNCHANGED << connection_id, closes, scope, pc >>
    /\ UNCHANGED codec

Rollback ==
    /\ Callable
    /\ IF CheckConnection(connection_id)
       THEN last' = NotConnected("rollback")
       ELSE \E rpc \in RpcOutcomes :
            IF rpc # "ok"
            THEN last' = TransportFailure("rollback", rpc)
            ELSE \E response \in TransactionResponses :
                 last' = Answered(response,
                    TransactionResult("rollback", "Rollback failed: ", response))
    /\ ResetAgg
    /\ UNCHANGED << connection_id, closes, scope, pc >>
    /\ UNCHANGED codec

\* The dict built from one wire column descriptor.
ColumnDict(col) ==
    [ name |-> col.name, type |-> col.type, precision |-> col.precision,
      scale |-> col.scale, nullable |-> col.nullable ]

ColumnDicts(cols) == [i \in 1..Len(cols) |-> ColumnDict(cols[i])]

WireTables ==
    [ name : {"customer"}, schema : {"informix"}, type : {"TABLE"},
      columns : SeqUpTo(WireColumns, 1) ]

MetadataResponses == [error : ErrTexts, tables : SeqUpTo(WireTables, 1)]

TableDict(table) ==
    [ name |-> table.name, schema |-> table.schema, type |-> table.type,
      columns |-> ColumnDicts(table.columns) ]

GetMetadata ==
    /\ Callable
    /\ IF CheckConnection(connection_id)
       THEN last' = NotConnected("get_metadata")
       ELSE \E rpc \in RpcOutcomes :
            IF rpc # "ok"
            THEN last' = TransportFailure("get_metadata", rpc)
            ELSE \E response \in MetadataResponses :
                 last' = Answered(response,
                    IF response.error # ""
                    THEN Raised("get_metadata", "Exception",
                                "Get metadata failed: ", response.error, 1)
                    ELSE Returned("get_metadata", 1,
                            [tables |-> [i \in 1..Len(response.tables) |->
                                            TableDict(response.tables[i])]]))
    /\ ResetAgg
    /\ UNCHANGED << connection_id, closes, scope, pc >>
    /\ UNCHANGED codec


(* ------------------------------------------------------------ ValueCodec *)

\* _convert_value: the native value of a wire Value.
ConvertValue(value) ==
    IF value.is_null THEN PyNone
    ELSE CASE value.which = "string_data" -> [type |-> "str", val |-> value.data]
           [] value.which = "int_data" -> [type |-> "int", val |-> value.data]
           [] value.which = "long_data" -> [type |-> "int", val |-> value.data]
           [] value.which = "double_data" -> [type |-> "float", val |-> value.data]
           [] value.which = "bool_data" -> [type |-> "bool", val |-> value.data]
           [] value.which = "bytes_data" -> [type |-> "bytes", val |-> value.data]
           [] OTHER -> PyNone

\* The types _convert_parameters has a branch for.
CodecTypes == {"NoneType", "str", "bool", "int", "float", "bytes"}

\* Native values given as parameters: None, two values of each type with a
\* branch of its own and two of a type without one (Decimal).  A str
\* payload k stands for the k-th string of a fixed list, and so on.
Natives ==
    {PyNone} \cup [type : (CodecTypes \ {"NoneType"}) \cup {"Decimal"},
                   val : {0, 1}]

ParamLists == SeqUpTo(Natives, MaxParams)

\* isinstance(param, cls): bool is a subclass of int.
IsInstance(param, cls) ==
    \/ param.type = cls
    \/ param.type = "bool" /\ cls = "int"

\* str(param): the text of a value, here of a Decimal; the strings 2 and 3
\* of the list are the texts of Decimal 0 and 1.
Str(param) == [type |-> "str", val |-> 2 + param.val]

\* informix_pb2.Parameter(<field>=<data>): the keyword it was built with.
Parameter(field, data) ==
    [is_null |-> field = "is_null", which |-> field, data |-> data]

\* The chain testing int before bool.
ConvertParameterIntFirst(param) ==
    IF param = PyNone THEN Parameter("is_null", 1)
    ELSE IF IsInstance(param, "str") THEN Parameter("string_value", param.val)
    ELSE IF IsInstance(param, "int") THEN Parameter("int_value", param.val)
    ELSE IF IsInstance(param, "bool") THEN Parameter("bool_value", param.val)
    ELSE IF IsInstance(param, "float") THEN Parameter("double_value", param.val)
    ELSE IF IsInstance(param, "bytes") THEN Parameter("bytes_value", param.val)
    ELSE Parameter("string_value", Str(param).val)

\* The if / elif chain of _convert_parameters on one param.
ConvertParameter(param) ==
    IF param = PyNone THEN Parameter("is_null", 1)
    ELSE IF IsInstance(param, "str") THEN Parameter("string_value", param.val)
    ELSE IF IsInstance(param, "bool") THEN Parameter("bool_value", param.val)
    ELSE IF IsInstance(param, "int") THEN Parameter("int_value", param.val)
    ELSE IF IsInstance(param, "float") THEN Parameter("double_value", param.val)
    ELSE IF IsInstance(param, "bytes") THEN Parameter("bytes_value", param.val)
    ELSE Parameter("string_value", Str(param).val)

\* _convert_parameters from param k on: each Parameter is appended to
\* `result`.
RECURSIVE ConvertParameters(_, _, _)
ConvertParameters(params, k, result) ==
    IF k > Len(params) THEN result
    ELSE ConvertParameters(params, k + 1,
                           Append(result, ConvertParameter(params[k])))

\* informix_pb2.Value messages: the null flag alone or beside a populated
\* member, no member populated, each member of oneof `data` populated.
WireValues ==
    { WireNull,
      [is_null |-> TRUE, which |-> "", data |-> 0],
      [is_null |-> FALSE, which |-> "", data |-> 0] }
    \cup [ is_null : {FALSE},
           which : {"string_data", "int_data", "long_data", "double_data",
                    "bool_data", "bytes_data"},
           data : {0, 1} ]

\* _convert_value called with a Parameter instead of a Value.  is_null is
\* a field of both; WhichOneof('data') raises ValueError when the message
\* has no oneof of that name (hasOneof false) and otherwise names one of
\* Parameter's own fields, which no branch of the chain compares with.
ConvertValueOfParameter(parameter, hasOneof) ==
    IF parameter.is_null THEN [exc |-> "", ret |-> PyNone]
    ELSE IF ~hasOneof THEN [exc |-> "ValueError", ret |-> PyNone]
    ELSE [exc |-> "", ret |-> ConvertValue(parameter)]

(* ------------------------------------------------- query / query_stream *)

\* obj[key] = value on a dict: a later assignment to the same key wins.
SetItem(obj, key, value) == (key :> value) @@ obj

\* The inner loop `for i, value in enumerate(row.values)` from index i on:
\* columns[i]['name'] raises TypeError on None and IndexError past the end.
RECURSIVE RowDict(_, _, _, _)
RowDict(values, cols, i, obj) ==
    IF i > Len(values) THEN [exc |-> "", obj |-> obj]
    ELSE IF cols.isNone THEN [exc |-> "TypeError", obj |-> obj]
    ELSE IF i > Len(cols.list) THEN [exc |-> "IndexError", obj |-> obj]
    ELSE RowDict(values, cols, i + 1,
                 SetItem(obj, cols.list[i].name, ConvertValue(values[i])))

\* The loop putting each dict in front of the list instead of at its end.
RECURSIVE AppendRowsNewestFirst(_, _, _, _)
AppendRowsNewestFirst(respRows, k, cols, acc) ==
    IF k > Len(respRows) THEN [exc |-> "", rows |-> acc]
    ELSE LET d == RowDict(respRows[k], cols, 1, EmptyObj) IN
         IF d.exc # "" THEN [exc |-> d.exc, rows |-> acc]
         ELSE AppendRowsNewestFirst(respRows, k + 1, cols, << d.obj >> \o acc)

\* query's `for row in response.rows` from row k on: each dict is appended.
RECURSIVE AppendRows(_, _, _, _)
AppendRows(respRows, k, cols, acc) ==
    IF k > Len(respRows) THEN [exc |-> "", rows |-> acc]
    ELSE LET d == RowDict(respRows[k], cols, 1, EmptyObj) IN
         IF d.exc # "" THEN [exc |-> d.exc, rows |-> acc]
         ELSE AppendRows(respRows, k + 1, cols, Append(acc, d.obj))

\* The loop calling on_row twice with each dict.
RECURSIVE HandleRowsTwice(_, _, _, _, _, _)
HandleRowsTwice(respRows, k, cols, handler, failAt, acc) ==
    IF k > Len(respRows) THEN [exc |-> "", handled |-> acc]
    ELSE LET d == RowDict(respRows[k], cols, 1, EmptyObj) IN
         IF d.exc # "" THEN [exc |-> d.exc, handled |-> acc]
         ELSE IF handler = "none"
         THEN HandleRowsTwice(respRows, k + 1, cols, handler, failAt, acc)
         ELSE IF k = failAt
         THEN [exc |-> "HandlerError", handled |-> Append(acc, d.obj)]
         ELSE HandleRowsTwice(respRows, k + 1, cols, handler, failAt,
                              Append(Append(acc, d.obj), d.obj))

\* The loop catching what on_row raises and going on with the next row.
RECURSIVE HandleRowsSwallows(_, _, _, _, _, _)
HandleRowsSwallows(respRows, k, cols, handler, failAt, acc) ==
    IF k > Len(respRows) THEN [exc |-> "", handled |-> acc]
    ELSE LET d == RowDict(respRows[k], cols, 1, EmptyObj) IN
         IF d.exc # "" THEN [exc |-> d.exc, handled |-> acc]
         ELSE IF handler = "none"
         THEN HandleRowsSwallows(respRows, k + 1, cols, handler, failAt, acc)
         ELSE HandleRowsSwallows(respRows, k + 1, cols, handler, failAt,
                                 Append(acc, d.obj))

\* query_stream's `for row in response.rows` from row k on: on_row, when
\* given, is called with each dict; its call for row failAt raises.
RECURSIVE HandleRows(_, _, _, _, _, _)
HandleRows(respRows, k, cols, handler, failAt, acc) ==
    IF k > Len(respRows) THEN [exc |-> "", handled |-> acc]
    ELSE LET d == RowDict(respRows[k], cols, 1, EmptyObj) IN
         IF d.exc # "" THEN [exc |-> d.exc, handled |-> acc]
         ELSE IF handler = "none"
         THEN HandleRows(respRows, k + 1, cols, handler, failAt, acc)
         ELSE IF k = failAt
         THEN [exc |-> "HandlerError", handled |-> Append(acc, d.obj)]
         ELSE HandleRows(respRows, k + 1, cols, handler, failAt,
                         Append(acc, d.obj))

\* Descriptors taken from each chunk by itself, nothing kept between chunks.
SaveColumnsEachChunk(cols, response) ==
    IF response.columns # << >> THEN ColsList(ColumnDicts(response.columns))
    ELSE ColsNone

\* `if response.columns: columns = [...]`.
SaveColumns(cols, response) ==
    IF response.columns # << >> THEN ColsList(ColumnDicts(response.columns))
    ELSE cols

\* total_rows accumulated over the chunks.
TotalRowsSummed(total, response) == total + response.total_rows

\* `total_rows = response.total_rows`.
TotalRows(total, response) == response.total_rows

\* The loop body without its `if response.error` test.
QueryBodyIgnoresError(cols, acc, total, response) ==
    LET c == SaveColumns(cols, response)
        r == AppendRows(response.rows, 1, c, acc)
    IN [exc |-> r.exc, msg |-> "", text |-> "", columns |-> c,
        rows |-> r.rows,
        total_rows |-> IF r.exc = "" THEN TotalRows(total, response)
                            ELSE total]

\* One pass of query's loop body on `response`.
QueryBody(cols, acc, total, response) ==
    IF response.error # ""
    THEN [exc |-> "Exception", msg |-> "Query failed: ",
          text |-> response.error, columns |-> cols, rows |-> acc,
          total_rows |-> total]
    ELSE LET c == SaveColumns(cols, response)
             r == AppendRows(response.rows, 1, c, acc)
         IN [exc |-> r.exc, msg |-> "", text |-> "", columns |-> c,
             rows |-> r.rows,
             total_rows |-> IF r.exc = "" THEN TotalRows(total, response)
                            ELSE total]

\* One pass of query_stream's loop body on `response`.
QueryStreamBody(cols, acc, total, handler, failAt, response) ==
    IF response.error # ""
    THEN [exc |-> "Exception", msg |-> "Query failed: ",
          text |-> response.error, columns |-> cols, handled |-> acc,
          total_rows |-> total]
    ELSE LET c == SaveColumns(cols, response)
             r == HandleRows(response.rows, 1, c, handler, failAt, acc)
         IN [exc |-> r.exc, msg |-> "", text |-> "", columns |-> c,
             handled |-> r.handled,
             total_rows |-> IF r.exc = "" THEN TotalRows(total, response)
                            ELSE total]

Running(op) == Outcome(op, "running", "", "", "", 1, NoRet, Now)

\* on_row is called with row failAt of `response` and raises: the chunk is
\* no error chunk, a handler was given, and every row up to failAt has a
\* dict under the columns `cols` in effect.
HandlerRaises(response, cols, handler, failAt) ==
    /\ response.error = ""
    /\ handler # "none"
    /\ failAt \in 1..Len(response.rows)
    /\ \A k \in 1..failAt :
          RowDict(response.rows[k], cols, 1, EmptyObj).exc = ""

\* What the stream has shown so far, beside the client's own variables.
Observe(response) ==
    /\ chunksRead' = chunksRead + 1
    /\ src' = IF response.error = "" THEN src \o response.rows ELSE src
    /\ colsFrom' = IF response.error # "" \/ response.columns = << >>
                   THEN colsFrom
                   ELSE IF chunksRead = 0
                   THEN [when |-> "first", first |-> response.columns]
                   ELSE [when |-> "later", first |-> << >>]
    /\ lastRowsAt' = IF response.error = "" /\ response.rows # << >>
                     THEN chunksRead + 1
                     ELSE lastRowsAt
    /\ errSeen' = IF response.error # "" /\ ~errSeen.seen
                  THEN [seen |-> TRUE, text |-> response.error,
                        at |-> chunksRead + 1,
                        emitted |-> Len(rows) + Len(handled),
                        nrows |-> Len(response.rows)]
                  ELSE errSeen
    /\ earlyRow' = IF /\ response.error = ""
                      /\ columns.isNone
                      /\ response.columns = << >>
                      /\ response.rows # << >>
                      /\ ~earlyRow.seen
                   THEN [seen |-> TRUE, emitted |-> Len(rows) + Len(handled)]
                   ELSE earlyRow
    /\ lastTotal' = IF response.error = "" THEN response.total_rows
                    ELSE lastTotal

\* query up to its loop: the precondition, the request, the RPC.
Query ==
    /\ Callable
    /\ ResetAgg
    /\ IF CheckConnection(connection_id)
       THEN /\ last' = NotConnected("query")
            /\ UNCHANGED pc
       ELSE /\ last' = Running("query")
            /\ pc' = "query"
    /\ UNCHANGED << connection_id, closes, scope >>
    /\ UNCHANGED codec

\* The stream yields `response`: one pass of the loop body.
QueryChunk ==
    /\ pc = "query"
    /\ chunksRead < MaxChunks
    /\ \E response \in Chunks(MaxRows - Len(src)) :
        LET b == QueryBody(columns, rows, total_rows, response) IN
        /\ columns' = b.columns
        /\ rows' = b.rows
        /\ total_rows' = b.total_rows
        /\ Observe(response)
        /\ IF b.exc = ""
           THEN UNCHANGED << pc, last >>
           ELSE /\ pc' = "idle"
                /\ last' = Outcome("query", "raised", b.exc, b.msg, b.text, 1,
                                   NoRet, last.before)
    /\ UNCHANGED << connection_id, closes, scope, on_row, handled,
                    handlerFail >>
    /\ UNCHANGED codec

\* The stream ends: the result dict is returned.
QueryReturn ==
    /\ pc = "query"
    /\ pc' = "idle"
    /\ last' = Outcome("query", "returned", "", "", "", 1,
                       [rows |-> rows, columns |-> columns,
                        row_count |-> total_rows], last.before)
    /\ UNCHANGED << connection_id, closes, scope, aggVars >>
    /\ UNCHANGED codec

\* The stream breaks: the iterator raises the transport's error.
QueryAbort ==
    /\ pc = "query"
    /\ pc' = "idle"
    /\ last' = Outcome("query", "raised", "RpcError", "", "", 1, NoRet,
                       last.before)
    /\ UNCHANGED << connection_id, closes, scope, aggVars >>
    /\ UNCHANGED codec

QueryStream ==
    /\ Callable
    /\ \E handler \in {"handler", "none"} :
        /\ on_row' = handler
        /\ columns' = ColsNone
        /\ rows' = << >>
        /\ total_rows' = 0
        /\ chunksRead' = 0
        /\ handled' = << >>
        /\ src' = << >>
        /\ colsFrom' = NoCols
        /\ lastRowsAt' = 0
        /\ errSeen' = NoErr
        /\ earlyRow' = NoEarly
        /\ lastTotal' = 0
        /\ handlerFail' = NoFail
    /\ IF CheckConnection(connection_id)
       THEN /\ last' = NotConnected("query_stream")
            /\ UNCHANGED pc
       ELSE /\ last' = Running("query_stream")
            /\ pc' = "query_stream"
    /\ UNCHANGED << connection_id, closes, scope >>
    /\ UNCHANGED codec

QueryStreamChunk ==
    /\ pc = "query_stream"
    /\ chunksRead < MaxChunks
    /\ \E response \in Chunks(MaxRows - Len(src)) :
       \E failAt \in IF on_row = "handler" THEN 0..Len(response.rows) ELSE {0} :
        LET b == QueryStreamBody(columns, handled, total_rows, on_row, failAt,
                                 response)
        IN
        /\ columns' = b.columns
        /\ handled' = b.handled
        /\ total_rows' = b.total_rows
        /\ Observe(response)
        /\ handlerFail' = IF HandlerRaises(response, b.columns, on_row, failAt)
                          THEN [seen |-> TRUE, chunk |-> chunksRead + 1,
                                row |-> failAt, before |-> Len(handled)]
                          ELSE handlerFail
        /\ IF b.exc = ""
           THEN UNCHANGED << pc, last >>
           ELSE /\ pc' = "idle"
                /\ last' = Outcome("query_stream", "raised", b.exc, b.msg,
                                   b.text, 1, NoRet, last.before)
    /\ UNCHANGED << connection_id, closes, scope, on_row, rows >>
    /\ UNCHANGED codec

QueryStreamReturn ==
    /\ pc = "query_stream"
    /\ pc' = "idle"
    /\ last' = Outcome("query_stream", "returned", "", "", "", 1,
                       [columns |-> columns, row_count |-> total_rows],
                       last.before)
    /\ UNCHANGED << connection_id, closes, scope, aggVars >>
    /\ UNCHANGED codec

QueryStreamAbort ==
    /\ pc = "query_stream"
    /\ pc' = "idle"
    /\ last' = Outcome("query_stream", "raised", "RpcError", "", "", 1, NoRet,
                       last.before)
    /\ UNCHANGED << connection_id, closes, scope, aggVars >>
    /\ UNCHANGED codec

(* ------------------------------------------------- the helpers by themselves *)

clientVars ==
    << connection_id, closes, scope, pc, last, on_row, columns, rows,
       total_rows, chunksRead, handled, src, colsFrom, lastRowsAt, errSeen,
       earlyRow, lastTotal, handlerFail >>

\* _convert_parameters(params) is called.
ConvertParametersCall ==
    /\ codec.pc = "start"
    /\ codec' = [codec EXCEPT !.pc = "encoded",
                              !.encoded = ConvertParameters(codec.params, 1,
                                                            << >>)]
    /\ UNCHANGED clientVars

\* _convert_value is called with the first Parameter of the list.
ConvertValueOfParameterCall ==
    /\ codec.pc = "encoded"
    /\ codec.encoded # << >>
    /\ \E hasOneof \in BOOLEAN :
        codec' = [codec EXCEPT !.pc = "punned",
                     !.punned = ConvertValueOfParameter(codec.encoded[1],
                                                        hasOneof)]
    /\ UNCHANGED clientVars

\* _convert_value is called with a Value a response carries.
ConvertValueCall ==
    /\ codec.pc = "punned"
    /\ \E value \in WireValues :
        codec' = [codec EXCEPT !.pc = "decoded", !.value = value,
                              !.decoded = ConvertValue(value)]
    /\ UNCHANGED clientVars

(* ------------------------------------------------------- specifications *)

\* The conversion helpers: a list of parameters is converted, then its
\* first Parameter and a Value go through _convert_value.
InitCodec ==
    /\ InitClient
    /\ \E params \in ParamLists : codec = [NoCodec EXCEPT !.params = params]

NextCodec ==
    \/ ConvertParametersCall
    \/ ConvertValueOfParameterCall
    \/ ConvertValueCall

SpecCodec == InitCodec /\ [][NextCodec]_vars

\* The whole client.
Next ==
    \/ Connect
    \/ Disconnect
    \/ Enter
    \/ Exit
    \/ Ping
    \/ Execute
    \/ Batch
    \/ BeginTransaction
    \/ Commit
    \/ Rollback
    \/ GetMetadata
    \/ Query
    \/ QueryChunk
    \/ QueryReturn
    \/ QueryAbort
    \/ QueryStream
    \/ QueryStreamChunk
    \/ QueryStreamReturn
    \/ QueryStreamAbort

Spec == Init /\ [][Next]_vars

\* The client used without a `with` block: every public operation and
\* every pass of the query loops.
NextFrame ==
    \/ Connect
    \/ Disconnect
    \/ Ping
    \/ Execute
    \/ Batch
    \/ BeginTransaction
    \/ Commit
    \/ Rollback
    \/ GetMetadata
    \/ Query
    \/ QueryChunk
    \/ QueryReturn
    \/ QueryAbort
    \/ QueryStream
    \/ QueryStreamChunk
    \/ QueryStreamReturn
    \/ QueryStreamAbort

SpecFrame == Init /\ [][NextFrame]_vars

\* The session: every public operation, the query streams ending (or
\* breaking) before a chunk is read.  No pass of a query loop reads or
\* writes connection_id, the channel or the scope.
NextSession ==
    \/ Connect
    \/ Disconnect
    \/ Enter
    \/ Exit
    \/ Ping
    \/ Execute
    \/ Batch
    \/ BeginTransaction
    \/ Commit
    \/ Rollback
    \/ GetMetadata
    \/ Query
    \/ QueryReturn
    \/ QueryAbort
    \/ QueryStream
    \/ QueryStreamReturn
    \/ QueryStreamAbort

SpecSession == Init /\ [][NextSession]_vars

\* The result aggregator: a client that connects, disconnects and runs
\* queries over streams of chunks.
NextAggregator ==
    \/ Connect
    \/ Disconnect
    \/ Query
    \/ QueryChunk
    \/ QueryReturn
    \/ QueryAbort
    \/ QueryStream
    \/ QueryStreamChunk
    \/ QueryStreamReturn
    \/ QueryStreamAbort

SpecAggregator == Init /\ [][NextAggregator]_vars

(* ---------------------------------------------------------------- claims *)

SessionOps ==
    { "ping", "query", "query_stream", "execute", "batch",
      "begin_transaction", "commit", "rollback", "get_metadata" }

\* The dicts the running / last query call appended or handed to on_row.
Emitted == rows \o handled

\* C1: with no session token (connection_id None or empty) each of the nine
\* session operations raises the 'Not connected' exception, issues no RPC
\* and leaves connection_id and the channel as they were.
C1_NoSessionFailsLocally ==
    (last.op \in SessionOps /\ Falsy(last.before.connection_id)) =>
        /\ pc = "idle"
        /\ last.outcome = "raised"
        /\ last.exc = "Exception"
        /\ last.msg = NotConnectedMsg
        /\ last.rpcs = 0
        /\ connection_id = last.before.connection_id
        /\ closes = last.before.closes

\* A rollback refused after a disconnect that closed the channel.
C1_Witness ==
    /\ last.op = "rollback"
    /\ last.before.connection_id = None
    /\ closes = 1
    /\ last.outcome = "raised"
    /\ last.msg = NotConnectedMsg

\* C2: a disconnect called on an active session leaves no token, whether
\* the Disconnect RPC succeeded or failed.
C2_DisconnectClearsToken ==
    (last.op = "disconnect" /\ ~Falsy(last.before.connection_id)) =>
        connection_id = None

\* C3: disconnect returns normally in every state.
C3_DisconnectNeverRaises ==
    last.op = "disconnect" => last.outcome = "returned"

C5_ChannelClosedExactlyOnce ==
    scope = "exited" => closes = 1

\* C6: entering the scope issues no RPC and changes no session state;
\* leaving it calls disconnect once and leaves no session token.
C6_ScopeExitDisconnects ==
    /\ last.op = "__enter__" =>
        /\ last.rpcs = 0
        /\ connection_id = last.before.connection_id
        /\ closes = last.before.closes
    /\ last.op = "__exit__" =>
        /\ last.disconnects = 1
        /\ Falsy(connection_id)

\* C7: once a chunk with an error field has been read, in query as in
\* query_stream, the call has raised 'Query failed: <that text>', nothing
\* was appended or handed to on_row from that chunk on, no later chunk was
\* read and no rows are returned.
C7_ErrorChunkAborts ==
    errSeen.seen =>
        /\ pc = "idle"
        /\ last.op \in {"query", "query_stream"}
        /\ last.outcome = "raised"
        /\ last.exc = "Exception"
        /\ last.msg = "Query failed: "
        /\ last.text = errSeen.text
        /\ last.ret = NoRet
        /\ Len(Emitted) = errSeen.emitted
        /\ chunksRead = errSeen.at

\* A buffered query that had accumulated rows when an error chunk with
\* rows of its own arrived.
C7_Witness ==
    /\ errSeen.seen
    /\ errSeen.at > 1
    /\ errSeen.nrows > 0
    /\ errSeen.emitted > 0
    /\ last.op = "query"
    /\ last.outcome = "raised"

\* C8: once a chunk has carried rows while no descriptors were cached, the
\* call has failed and no dict was appended or handed over for such a row.
C8_RowsBeforeColumnsFail ==
    earlyRow.seen =>
        /\ pc = "idle"
        /\ last.outcome = "raised"
        /\ Len(Emitted) = earlyRow.emitted

\* C9: descriptors once cached are not replaced by those of a later chunk.
C9_FirstDescriptorsKept ==
    [][(pc # "idle" /\ ~columns.isNone) => columns' = columns]_vars

\* The last position of row positions i..n whose column has the name of
\* column i: the assignment that is left in the dict.
LastSameName(cols, i, n) ==
    CHOOSE j \in i..n :
        /\ cols[j].name = cols[i].name
        /\ \A m \in (j + 1)..n : cols[m].name # cols[i].name

\* C10: when descriptors came with the first chunk only, the rows of every
\* chunk are decoded against them, never against none: the k-th dict is
\* that of the k-th row, its keys the names of the row's positions among
\* the first chunk's columns, the i-th value under the i-th name (under a
\* name carried by two columns, the later position's value); and while the
\* call has not failed no row has been left out.
C10_PositionalDecoding ==
    colsFrom.when = "first" =>
        /\ last.exc # "TypeError"
        /\ Len(Emitted) <= Len(src)
        /\ \A k \in 1..Len(Emitted) :
            LET row == src[k]
                obj == Emitted[k]
                cols == colsFrom.first
            IN /\ Len(row) <= Len(cols)
               /\ DOMAIN obj = { cols[i].name : i \in 1..Len(row) }
               /\ \A i \in 1..Len(row) :
                    obj[cols[i].name] =
                        ConvertValue(row[LastSameName(cols, i, Len(row))])
        /\ (last.outcome # "raised" /\ (last.op = "query" \/ on_row = "handler"))
            => Len(Emitted) = Len(src)

\* A row of two values in the third chunk, after two chunks without rows,
\* decoded against the two columns of the first chunk.
C10_Witness ==
    /\ colsFrom.when = "first"
    /\ Len(colsFrom.first) = 2
    /\ colsFrom.first[1].name # colsFrom.first[2].name
    /\ chunksRead = 3
    /\ lastRowsAt = 3
    /\ Len(src) = 1
    /\ Len(src[1]) = 2
    /\ Len(Emitted) = 1

\* obj is a dict made of the values of wire row `row`: empty exactly when
\* the row is, each of its values one of the row's, the row's last value
\* among them.
DictOfRow(obj, row) ==
    /\ (DOMAIN obj = {}) <=> (row = << >>)
    /\ \A n \in DOMAIN obj : \E i \in 1..Len(row) : obj[n] = ConvertValue(row[i])
    /\ row # << >> => \E n \in DOMAIN obj : obj[n] = ConvertValue(row[Len(row)])

\* C11: the rows a buffered query returns are one dict per row of the
\* chunks read, in chunk order and then row order: as many as the chunks'
\* row counts sum to, the k-th made of the k-th row.
C11_RowsInArrivalOrder ==
    (last.op = "query" /\ last.outcome = "returned") =>
        /\ Len(last.ret.rows) = Len(src)
        /\ \A k \in 1..Len(src) : DictOfRow(last.ret.rows[k], src[k])

\* Three chunks, the last with rows, two different rows in all: of rows
\* per chunk [1,0,1], [0,1,1] or [0,0,2].
C11_Witness ==
    /\ last.op = "query"
    /\ last.outcome = "returned"
    /\ chunksRead = 3
    /\ lastRowsAt = 3
    /\ Len(src) = 2
    /\ src[1] # src[2]
    /\ Len(last.ret.rows) = 2

QueryOps == {"query", "query_stream"}

\* C12: the row count query and query_stream return is the total reported
\* by the last chunk read, 0 when the stream had no chunk: not a sum over
\* the chunks, not the number of rows decoded.
C12_RowCountIsLastTotal ==
    (last.op \in QueryOps /\ last.outcome = "returned") =>
        last.ret.row_count = IF chunksRead = 0 THEN 0 ELSE lastTotal

\* Three chunks delivered two rows and the last one reported a total of 1.
C12_Witness ==
    /\ last.op = "query"
    /\ last.outcome = "returned"
    /\ chunksRead = 3
    /\ Len(src) = 2
    /\ lastTotal = 1
    /\ last.ret.row_count = 1

\* C13: query_stream with a handler has called it with one dict per row
\* read, in stream order, by the time the next chunk is pulled or the call
\* returns; its result holds the columns and the row count and nothing
\* else.
C13_HandlerOncePerRow ==
    /\ (last.op = "query_stream" /\ on_row = "handler"
            /\ last.outcome \in {"running", "returned"}) =>
        /\ Len(handled) = Len(src)
        /\ \A k \in 1..Len(src) : DictOfRow(handled[k], src[k])
    /\ (last.op = "query_stream" /\ last.outcome = "returned") =>
        DOMAIN last.ret = {"columns", "row_count"}

\* Two chunks or more, two different rows handled.
C13_Witness ==
    /\ last.op = "query_stream"
    /\ last.outcome = "returned"
    /\ on_row = "handler"
    /\ chunksRead >= 2
    /\ lastRowsAt >= 2
    /\ Len(handled) = 2
    /\ src[1] # src[2]

\* C14: when on_row raises, query_stream raises what it raised: the handler
\* is not called with a later row, no later chunk is read, nothing is
\* returned.
C14_HandlerFailureStops ==
    handlerFail.seen =>
        /\ pc = "idle"
        /\ last.op = "query_stream"
        /\ last.outcome = "raised"
        /\ last.exc = "HandlerError"
        /\ last.ret = NoRet
        /\ chunksRead = handlerFail.chunk
        /\ Len(handled) = handlerFail.before + handlerFail.row

\* on_row raised on the first of a chunk's two rows, the stream not
\* exhausted.
C14_Witness ==
    /\ handlerFail.seen
    /\ handlerFail.row = 1
    /\ handlerFail.before = 0
    /\ Len(src) = 2
    /\ Len(handled) = 1
    /\ chunksRead < MaxChunks
    /\ last.exc = "HandlerError"

\* C15: a connect the proxy answers with success = false raises the
\* connection error with the proxy's error text and leaves connection_id
\* as it was before the call, whatever token the response carries.
C15_RejectedConnectKeepsToken ==
    (last.op = "connect" /\ last.resp # NoResp /\ ~last.resp.success) =>
        /\ last.outcome = "raised"
        /\ last.exc = "Exception"
        /\ last.msg = "Connection failed: "
        /\ last.text = last.resp.error
        /\ last.ret = NoRet
        /\ connection_id = last.before.connection_id

\* An unconnected client is refused with a text, the response carrying a
\* token nonetheless.
C15_Witness ==
    /\ last.op = "connect"
    /\ last.resp # NoResp
    /\ ~last.resp.success
    /\ last.resp.error = "boom"
    /\ last.resp.connection_id = "conn-1"
    /\ last.before.connection_id = None
    /\ connection_id = None

\* C16: a connect that returns has stored the connection_id of the
\* response, and while a token is stored every operation that needs a
\* session passes _check_connection and sends its RPC with that token.
C16_ConnectedSessionActive ==
    /\ (last.op = "connect" /\ last.outcome = "returned") =>
        connection_id = last.resp.connection_id
    /\ (last.op \in SessionOps /\ last.before.connection_id # None) =>
        /\ last.msg # NotConnectedMsg
        /\ last.rpcs = 1
        /\ last.sent = last.before.connection_id

\* C17: batch returns the rows_affected of the response as they are when
\* the response has no error; when it has one, batch raises the batch
\* error with the proxy's text and returns none of the counts the response
\* carries.
C17_BatchAllOrNothing ==
    (last.op = "batch" /\ last.resp # NoResp) =>
        IF last.resp.error = ""
        THEN /\ last.outcome = "returned"
             /\ last.ret = [rows_affected |-> last.resp.rows_affected]
        ELSE /\ last.outcome = "raised"
             /\ last.exc = "Exception"
             /\ last.msg = "Batch failed: "
             /\ last.text = last.resp.error
             /\ last.ret = NoRet

\* The response reports an error beside the counts of two statements.
C17_Witness ==
    /\ last.op = "batch"
    /\ last.resp # NoResp
    /\ last.resp.error = "boom"
    /\ last.resp.rows_affected = << 1, 2 >>
    /\ last.outcome = "raised"

\* C19: a call issues one RPC at most; a call that needs a session issues
\* none when _check_connection raises and one otherwise, a refusal by the
\* proxy included.  begin_transaction, commit and rollback return exactly
\* when the response to that very call says success, whatever call came
\* before.
C19_OneRpcNoBookkeeping ==
    /\ last.rpcs <= 1
    /\ last.op \in SessionOps =>
        last.rpcs = IF Falsy(last.before.connection_id) THEN 0 ELSE 1
    /\ (last.op \in TransactionOps /\ last.resp # NoResp) =>
        /\ last.rpcs = 1
        /\ last.sent = last.before.connection_id
        /\ (last.outcome = "returned") <=> last.resp.success
        /\ (last.outcome = "raised") =>
              (last.exc = "Exception" /\ last.text = last.resp.error)

\* A commit right after a commit is forwarded and refused by the proxy.
C19_Witness ==
    /\ last.op = "commit"
    /\ last.prev = "commit"
    /\ last.resp # NoResp
    /\ ~last.resp.success
    /\ last.rpcs = 1
    /\ last.outcome = "raised"

\* C20: an operation that needs a session leaves connection_id as it found
\* it, however it ends and at every point of a query's stream; and a query
\* starts with no columns, no rows and a count of 0, so that a stream
\* without chunks returns exactly that whatever the query before it read.
C20_OnlyConnectDisconnectChangeToken ==
    /\ last.op \in SessionOps => connection_id = last.before.connection_id
    /\ (pc \in QueryOps /\ chunksRead = 0) =>
        /\ columns = ColsNone
        /\ rows = << >>
        /\ handled = << >>
        /\ total_rows = 0
    /\ (last.op \in QueryOps /\ last.outcome = "returned" /\ chunksRead = 0) =>
        /\ last.ret.columns = ColsNone
        /\ last.ret.row_count = 0
        /\ last.op = "query" => last.ret.rows = << >>

\* The handler raised in the middle of a stream on a connected client: the
\* token is the one the call began with.
C20_Witness ==
    /\ last.op = "query_stream"
    /\ last.outcome = "raised"
    /\ handlerFail.seen
    /\ last.before.connection_id = "conn-1"
    /\ connection_id = "conn-1"

\* The Parameter field _convert_parameters is to use for a value of `type`.
VariantOf(type) ==
    CASE type = "NoneType" -> "is_null"
      [] type = "str" -> "string_value"
      [] type = "bool" -> "bool_value"
      [] type = "int" -> "int_value"
      [] type = "float" -> "double_value"
      [] type = "bytes" -> "bytes_value"
      [] OTHER -> "string_value"

\* The members of Value's oneof that carry what Parameter's `field` does.
Counterparts(field) ==
    CASE field = "string_value" -> {"string_data"}
      [] field = "bool_value" -> {"bool_data"}
      [] field = "int_value" -> {"int_data", "long_data"}
      [] field = "double_value" -> {"double_data"}
      [] field = "bytes_value" -> {"bytes_data"}
      [] OTHER -> {}

\* The Value carries the variant and the payload of the Parameter.
Carries(value, parameter) ==
    IF parameter.is_null THEN value.is_null
    ELSE /\ ~value.is_null
         /\ value.which \in Counterparts(parameter.which)
         /\ value.data = parameter.data

\* The list _convert_parameters returned has one Parameter per param, in
\* order, of the variant the precedence gives (a bool as bool_value) and
\* with the payload unchanged.
EncodedInOrder ==
    codec.pc # "start" =>
        /\ Len(codec.encoded) = Len(codec.params)
        /\ \A i \in 1..Len(codec.params) :
            LET v == codec.params[i]
                e == codec.encoded[i]
            IN /\ e.which = VariantOf(v.type)
               /\ e.is_null <=> (v = PyNone)
               /\ (v.type \in CodecTypes /\ v # PyNone) => e.data = v.val
               /\ v.type \notin CodecTypes =>
                     [type |-> "str", val |-> e.data] = Str(v)

\* C18 as stated: _convert_value applied to the first Parameter of
\* _convert_parameters' result returns the first param, for each type with
\* a branch; the list keeps length and order, a bool its variant.
C18_RoundTrip ==
    /\ EncodedInOrder
    /\ (codec.pc \in {"punned", "decoded"}
            /\ codec.params[1].type \in CodecTypes) =>
        codec.punned = [exc |-> "", ret |-> codec.params[1]]

\* C18: the list keeps length and order and each param gets the variant
\* of the precedence; _convert_value returns a param of a type with a
\* branch when given a Value that carries the variant and payload of its
\* Parameter; given the Parameter itself it returns the param only when
\* that is None.
C18_EncodeThenDecodeValue ==
    /\ EncodedInOrder
    /\ (codec.pc = "decoded" /\ codec.params[1].type \in CodecTypes
            /\ Carries(codec.value, codec.encoded[1])) =>
        codec.decoded = codec.params[1]
    /\ (codec.pc \in {"punned", "decoded"} /\ codec.params[1] = PyNone) =>
        codec.punned = [exc |-> "", ret |-> PyNone]

\* True and 1 were converted, in that order; the Value with bool_data set
\* gives True back, the Parameter itself gives None.
C18_Witness ==
    /\ codec.pc = "decoded"
    /\ codec.params = << [type |-> "bool", val |-> 1],
                         [type |-> "int", val |-> 1] >>
    /\ codec.encoded[1].which = "bool_value"
    /\ codec.encoded[2].which = "int_value"
    /\ codec.value = [is_null |-> FALSE, which |-> "bool_data", data |-> 1]
    /\ codec.decoded = [type |-> "bool", val |-> 1]
    /\ codec.punned = [exc |-> "", ret |-> PyNone]

====
